---- MODULE Spec2Model ----
(***************************************************************************)
(* The contact / booking form of src/pages/Contact.tsx: the React state of *)
(* the Contact component, its handlers handleChange and handleSubmit, the  *)
(* zod schema contactSchema that validateForm parses the form data with,   *)
(* and the fetch to the relay endpoint whose outcome handleSubmit awaits.  *)
(*                                                                         *)
(* A string is a sequence of one-character strings, so that trim() and the *)
(* length checks of the schema are computed, not assumed.                  *)
(***************************************************************************)
EXTENDS Integers, Sequences, FiniteSets, TLC

VARIABLES
    formData,      \* useState: the seven form fields
    isSubmitting,  \* useState: boolean
    errors,        \* useState: FormErrors, a map field name -> message
    submitError,   \* useState: string | null
    pending,       \* fetches awaited by a suspended handleSubmit, oldest first,
                   \* each the index of its request in requests
    requests,      \* every request handed to fetch so far, oldest first
    toasts,        \* every toast shown so far, oldest first
    outcomes,      \* how each settled fetch ended, oldest first
    lastSubmit,    \* how the latest submit event ended: "none" before the
                   \* first, "invalid" (early return) or "sent"
    nSubmits,      \* number of submit events so far
    nPassed        \* number of submit events validateForm returned true for

vars == <<formData, isSubmitting, errors, submitError, pending, requests,
          toasts, outcomes, lastSubmit, nSubmits, nPassed>>

----------------------------------------------------------------------------
(* Bounds of the model *)

\* submit events explored in one behaviour
MaxSubmits == 2

----------------------------------------------------------------------------
(* Program constants *)

WORKER_ENDPOINT == "https://contact-form.digbadara-finance.workers.dev"

MaxNameLen == 100
MaxEmailLen == 255
MaxLocationLen == 200
MaxMessageLen == 2000
MinRequiredLen == 1

\* the keys of the formData state object, in declaration order
FieldNames == <<"name", "email", "eventDate", "eventType", "location",
                "message", "_gotcha">>

Fields == {FieldNames[i] : i \in 1..Len(FieldNames)}

\* the inputs the form renders with onChange={handleChange}
RenderedFields == {"_gotcha", "name", "email", "message"}

\* null and undefined, told apart from every string of the model
Null == <<"null">>
Undefined == <<"undefined">>

----------------------------------------------------------------------------
(* Strings *)

WhiteSpace == {" ", "\t"}

\* the string of n characters c
Rep(n, c) == [i \in 1..n |-> c] \o <<>>

\* String.prototype.trim: drop the white space at both ends
Trim(s) ==
    IF \A i \in 1..Len(s) : s[i] \in WhiteSpace
    THEN <<>>
    ELSE LET first == CHOOSE i \in 1..Len(s) :
                          /\ s[i] \notin WhiteSpace
                          /\ \A j \in 1..(i-1) : s[j] \in WhiteSpace
             last  == CHOOSE i \in 1..Len(s) :
                          /\ s[i] \notin WhiteSpace
                          /\ \A j \in (i+1)..Len(s) : s[j] \in WhiteSpace
         IN SubSeq(s, first, last)

Letters == {"a", "b"}

\* zod's email check on the model's alphabet (letters, ".", "@", white
\* space): one "@"; a local part of letters and dots that neither starts nor
\* ends with a dot; a domain of dot-separated non-empty labels, at least two
\* of them, the last of two letters or more; no two dots in a row anywhere.
IsEmail(s) ==
    LET n   == Len(s)
        ats == {i \in 1..n : s[i] = "@"}
    IN /\ Cardinality(ats) = 1
       /\ \A i \in 1..n : s[i] \in Letters \cup {".", "@"}
       /\ \A i \in 1..(n-1) : ~(s[i] = "." /\ s[i+1] = ".")
       /\ LET k == CHOOSE i \in ats : TRUE
          IN /\ k > 1
             /\ s[1] # "."
             /\ s[k-1] # "."
             /\ k + 1 <= n
             /\ s[k+1] # "."
             /\ \E d \in (k+2)..(n-2) :
                   /\ s[d] = "."
                   /\ \A j \in (d+1)..n : s[j] \in Letters

----------------------------------------------------------------------------
(* contactSchema and validateForm *)

\* a schema whose length checks come before the trim
contactSchema_TrimLast ==
    [name      |-> << [kind |-> "min", value |-> MinRequiredLen],
                      [kind |-> "max", value |-> MaxNameLen],
                      [kind |-> "trim"] >>,
     email     |-> << [kind |-> "trim"],
                      [kind |-> "email"],
                      [kind |-> "max", value |-> MaxEmailLen] >>,
     eventDate |-> << >>,
     eventType |-> << >>,
     location  |-> << [kind |-> "max", value |-> MaxLocationLen],
                      [kind |-> "trim"] >>,
     message   |-> << [kind |-> "min", value |-> MinRequiredLen],
                      [kind |-> "max", value |-> MaxMessageLen],
                      [kind |-> "trim"] >>,
     _gotcha   |-> << >>]

\* z.object({...}): the checks of each key, in the order zod applies them.
\* .optional() only admits undefined, which no field of formData ever is.
contactSchema ==
    [name      |-> << [kind |-> "trim"],
                      [kind |-> "min", value |-> MinRequiredLen],
                      [kind |-> "max", value |-> MaxNameLen] >>,
     email     |-> << [kind |-> "trim"],
                      [kind |-> "email"],
                      [kind |-> "max", value |-> MaxEmailLen] >>,
     eventDate |-> << >>,
     eventType |-> << >>,
     location  |-> << [kind |-> "trim"],
                      [kind |-> "max", value |-> MaxLocationLen] >>,
     message   |-> << [kind |-> "trim"],
                      [kind |-> "min", value |-> MinRequiredLen],
                      [kind |-> "max", value |-> MaxMessageLen] >>,
     _gotcha   |-> << >>]

\* useState<FormErrors>({})
EmptyErrors == [f \in {} |-> <<>>]

\* the default messages of zod's issues
IssueMessage(check) ==
    CASE check.kind = "min"   -> <<"String must contain at least", check.value>>
      [] check.kind = "max"   -> <<"String must contain at most", check.value>>
      [] check.kind = "email" -> <<"Invalid email">>

\* ZodString._parse: every check runs, in order, on the data as the earlier
\* checks left it; a failed check adds an issue and parsing goes on.
RECURSIVE ParseString(_, _, _)
ParseString(checks, data, path) ==
    IF checks = <<>> THEN <<>>
    ELSE LET c    == Head(checks)
             rest == Tail(checks)
             issue == <<[path |-> path, message |-> IssueMessage(c)]>>
         IN CASE c.kind = "trim" -> ParseString(rest, Trim(data), path)
              [] c.kind = "min" ->
                   (IF Len(data) < c.value THEN issue ELSE <<>>)
                       \o ParseString(rest, data, path)
              [] c.kind = "max" ->
                   (IF Len(data) > c.value THEN issue ELSE <<>>)
                       \o ParseString(rest, data, path)
              [] c.kind = "email" ->
                   (IF ~IsEmail(data) THEN issue ELSE <<>>)
                       \o ParseString(rest, data, path)

\* contactSchema.parse(formData): the issues of all keys, in key order
RECURSIVE ParseFrom(_, _)
ParseFrom(i, fd) ==
    IF i > Len(FieldNames) THEN <<>>
    ELSE ParseString(contactSchema[FieldNames[i]], fd[FieldNames[i]],
                     FieldNames[i])
             \o ParseFrom(i + 1, fd)

ZodIssues(fd) == ParseFrom(1, fd)

\* the catch branch of validateForm: newErrors[err.path[0]] = err.message for
\* each issue in turn, so a later issue of a field overwrites an earlier one
NewErrors(issues) ==
    LET paths == {issues[i].path : i \in 1..Len(issues)}
        lastOf(f) == CHOOSE i \in 1..Len(issues) :
                        /\ issues[i].path = f
                        /\ \A j \in (i+1)..Len(issues) : issues[j].path # f
    IN [f \in paths |-> issues[lastOf(f)].message]

\* the value validateForm returns
validateForm(fd) == ZodIssues(fd) = <<>>

\* a validateForm whose try branch leaves the errors as they are
validateFormErrors_KeepsOld(fd) ==
    IF validateForm(fd) THEN errors ELSE NewErrors(ZodIssues(fd))

\* the errors state validateForm sets
validateFormErrors(fd) ==
    IF validateForm(fd) THEN EmptyErrors ELSE NewErrors(ZodIssues(fd))

----------------------------------------------------------------------------
(* The request handleSubmit builds *)

\* a payload whose location is tested for emptiness before it is trimmed
PayloadObject_LocationUntrimmed(fd) ==
    [name      |-> Trim(fd.name),
     email     |-> Trim(fd.email),
     eventDate |-> IF fd.eventDate = <<>> THEN Undefined ELSE fd.eventDate,
     eventType |-> IF fd.eventType = <<>> THEN Undefined ELSE fd.eventType,
     location  |-> IF fd.location = <<>> THEN Undefined
                   ELSE Trim(fd.location),
     message   |-> Trim(fd.message),
     _gotcha   |-> fd._gotcha]

\* a payload whose honeypot is given the || undefined of the optional keys
PayloadObject_GotchaOptional(fd) ==
    [name      |-> Trim(fd.name),
     email     |-> Trim(fd.email),
     eventDate |-> IF fd.eventDate = <<>> THEN Undefined ELSE fd.eventDate,
     eventType |-> IF fd.eventType = <<>> THEN Undefined ELSE fd.eventType,
     location  |-> IF Trim(fd.location) = <<>> THEN Undefined
                   ELSE Trim(fd.location),
     message   |-> Trim(fd.message),
     _gotcha   |-> IF fd._gotcha = <<>> THEN Undefined ELSE fd._gotcha]

\* the object literal handed to JSON.stringify; x || undefined is undefined
\* for the empty string
PayloadObject(fd) ==
    [name      |-> Trim(fd.name),
     email     |-> Trim(fd.email),
     eventDate |-> IF fd.eventDate = <<>> THEN Undefined ELSE fd.eventDate,
     eventType |-> IF fd.eventType = <<>> THEN Undefined ELSE fd.eventType,
     location  |-> IF Trim(fd.location) = <<>> THEN Undefined
                   ELSE Trim(fd.location),
     message   |-> Trim(fd.message),
     _gotcha   |-> fd._gotcha]

\* JSON.stringify of an object of strings: a key whose value is undefined is
\* left out
JSONStringify(obj) ==
    [k \in {f \in DOMAIN obj : obj[f] # Undefined} |-> obj[k]]

FetchRequest(fd) ==
    [url     |-> WORKER_ENDPOINT,
     method  |-> "POST",
     headers |-> [ContentType |-> "application/json"],
     body    |-> JSONStringify(PayloadObject(fd)),
     src     |-> fd]

----------------------------------------------------------------------------
(* The component *)

\* useState({name: "", ...}), and the object setFormData is given on success
EmptyForm ==
    [name |-> <<>>, email |-> <<>>, eventDate |-> <<>>, eventType |-> <<>>,
     location |-> <<>>, message |-> <<>>, _gotcha |-> <<>>]

\* a submit button that is never disabled
SubmitEnabled_Always == TRUE

\* <button type="submit" disabled={isSubmitting}>: a disabled default button
\* admits no submit event, by click or by implicit submission
SubmitEnabled == ~isSubmitting

\* response.ok
ResponseOk(status) == status >= 200 /\ status <= 299

\* new Error(`Request failed (${response.status})`)
RequestFailed(status) ==
    [isError |-> TRUE, message |-> <<"Request failed (", ToString(status), ")">>]

\* error instanceof Error ? error.message : "Submission failed."
CatchMessage(error) ==
    IF error.isError THEN error.message ELSE <<"Submission failed.">>

SuccessToast ==
    [title |-> "Request Received",
     description |-> <<"Thank you for your inquiry. We'll be in touch within 24 hours.">>,
     variant |-> "default"]

FailureToast(message) ==
    [title |-> "Submission Failed", description |-> message,
     variant |-> "destructive"]

Remove(s, i) == SubSeq(s, 1, i - 1) \o SubSeq(s, i + 1, Len(s))

----------------------------------------------------------------------------
(* Inputs *)

\* HTTP statuses the relay may answer with
Statuses == {200, 204, 500}

\* what a rejected fetch is caught with: a TypeError, or a value that is no
\* Error
RejectReasons ==
    { [isError |-> TRUE, message |-> <<"Failed to fetch">>],
      [isError |-> FALSE, message |-> <<"aborted">>] }

\* what the user may type into each rendered input
ChangeValues ==
    [name    |-> { <<>>, <<" ">>, <<" ", "a", " ">>,
                   Rep(MaxNameLen + 1, "a") },
     email   |-> { <<>>, <<" ", "a", "@", "a", ".", "a", "a", " ">>,
                   <<"a", "@", "a">>, Rep(MaxEmailLen + 1, "a") },
     message |-> { <<>>, <<" ">>, <<" ", "a", " ">> },
     _gotcha |-> { <<>>, <<" ", "b">> }]

----------------------------------------------------------------------------
(* Initial state and handlers *)

Init ==
    /\ formData = EmptyForm
    /\ isSubmitting = FALSE
    /\ errors = EmptyErrors
    /\ submitError = Null
    /\ pending = <<>>
    /\ requests = <<>>
    /\ toasts = <<>>
    /\ outcomes = <<>>
    /\ lastSubmit = "none"
    /\ nSubmits = 0
    /\ nPassed = 0

\* a handleChange that also drops the validation message of the field edited
handleChange_ClearsFieldError(field, value) ==
    /\ formData' = [formData EXCEPT ![field] = value]
    /\ errors' = [f \in DOMAIN errors \ {field} |-> errors[f]]
    /\ UNCHANGED <<isSubmitting, submitError, pending, requests, toasts,
                   outcomes, lastSubmit, nSubmits, nPassed>>

\* a handleChange that ignores the event while a request is in flight
handleChange_IgnoredWhileSubmitting(field, value) ==
    /\ ~isSubmitting
    /\ formData' = [formData EXCEPT ![field] = value]
    /\ UNCHANGED <<isSubmitting, errors, submitError, pending, requests,
                   toasts, outcomes, lastSubmit, nSubmits, nPassed>>

\* handleChange: setFormData(prev => ({...prev, [name]: value}))
handleChange(field, value) ==
    /\ formData' = [formData EXCEPT ![field] = value]
    /\ UNCHANGED <<isSubmitting, errors, submitError, pending, requests,
                   toasts, outcomes, lastSubmit, nSubmits, nPassed>>

Change ==
    \E field \in RenderedFields :
        \E value \in ChangeValues[field] :
            /\ value # formData[field]
            /\ handleChange(field, value)

\* a handleSubmit that clears submitError only once validation has passed
HandleSubmitInvalid_KeepsError ==
    /\ SubmitEnabled
    /\ nSubmits < MaxSubmits
    /\ ~validateForm(formData)
    /\ errors' = validateFormErrors(formData)
    /\ lastSubmit' = "invalid"
    /\ nSubmits' = nSubmits + 1
    /\ UNCHANGED <<formData, isSubmitting, submitError, pending, requests,
                   toasts, outcomes, nPassed>>

\* handleSubmit when validateForm returns false: the early return
HandleSubmitInvalid ==
    /\ SubmitEnabled
    /\ nSubmits < MaxSubmits
    /\ ~validateForm(formData)
    /\ submitError' = Null
    /\ errors' = validateFormErrors(formData)
    /\ lastSubmit' = "invalid"
    /\ nSubmits' = nSubmits + 1
    /\ UNCHANGED <<formData, isSubmitting, pending, requests, toasts,
                   outcomes, nPassed>>

\* handleSubmit with the result of validateForm ignored
HandleSubmitSend_Unvalidated ==
    /\ SubmitEnabled
    /\ nSubmits < MaxSubmits
    /\ submitError' = Null
    /\ errors' = validateFormErrors(formData)
    /\ isSubmitting' = TRUE
    /\ pending' = Append(pending, Len(requests) + 1)
    /\ requests' = Append(requests, FetchRequest(formData))
    /\ lastSubmit' = "sent"
    /\ nSubmits' = nSubmits + 1
    /\ nPassed' = nPassed + 1
    /\ UNCHANGED <<formData, toasts, outcomes>>

\* handleSubmit when validateForm returns true, up to the await of the fetch
HandleSubmitSend ==
    /\ SubmitEnabled
    /\ nSubmits < MaxSubmits
    /\ validateForm(formData)
    /\ submitError' = Null
    /\ errors' = validateFormErrors(formData)
    /\ isSubmitting' = TRUE
    /\ pending' = Append(pending, Len(requests) + 1)
    /\ requests' = Append(requests, FetchRequest(formData))
    /\ lastSubmit' = "sent"
    /\ nSubmits' = nSubmits + 1
    /\ nPassed' = nPassed + 1
    /\ UNCHANGED <<formData, toasts, outcomes>>

\* a reset whose object literal lacks the _gotcha key
HandleSuccess_KeepsGotcha(i) ==
    /\ toasts' = Append(toasts, SuccessToast)
    /\ formData' = [EmptyForm EXCEPT !._gotcha = formData._gotcha]
    /\ isSubmitting' = FALSE
    /\ pending' = Remove(pending, i)
    /\ outcomes' = Append(outcomes, [request |-> pending[i], kind |-> "ok"])
    /\ UNCHANGED <<errors, submitError, requests, lastSubmit, nSubmits,
                   nPassed>>

\* handleSubmit resumed with a response that is ok: toast, reset, finally
HandleSuccess(i) ==
    /\ toasts' = Append(toasts, SuccessToast)
    /\ formData' = EmptyForm
    /\ isSubmitting' = FALSE
    /\ pending' = Remove(pending, i)
    /\ outcomes' = Append(outcomes, [request |-> pending[i], kind |-> "ok"])
    /\ UNCHANGED <<errors, submitError, requests, lastSubmit, nSubmits,
                   nPassed>>

\* a handler with setIsSubmitting(false) at the end of the try body, and no
\* finally block
HandleFailure_NoFinally(i, kind, error) ==
    /\ submitError' = CatchMessage(error)
    /\ toasts' = Append(toasts, FailureToast(CatchMessage(error)))
    /\ pending' = Remove(pending, i)
    /\ outcomes' = Append(outcomes, [request |-> pending[i], kind |-> kind])
    /\ UNCHANGED <<formData, isSubmitting, errors, requests, lastSubmit,
                   nSubmits, nPassed>>

\* a catch block that shows the banner and no toast
HandleFailure_NoToast(i, kind, error) ==
    /\ submitError' = CatchMessage(error)
    /\ isSubmitting' = FALSE
    /\ pending' = Remove(pending, i)
    /\ outcomes' = Append(outcomes, [request |-> pending[i], kind |-> kind])
    /\ UNCHANGED <<formData, errors, requests, toasts, lastSubmit, nSubmits,
                   nPassed>>

\* a handler that clears isSubmitting on the success path only
HandleFailure_StaysSubmitting(i, kind, error) ==
    /\ submitError' = CatchMessage(error)
    /\ toasts' = Append(toasts, FailureToast(CatchMessage(error)))
    /\ pending' = Remove(pending, i)
    /\ outcomes' = Append(outcomes, [request |-> pending[i], kind |-> kind])
    /\ UNCHANGED <<formData, isSubmitting, errors, requests, lastSubmit,
                   nSubmits, nPassed>>

\* a catch block that sends the request again
HandleFailure_Retries(i, kind, error) ==
    /\ submitError' = CatchMessage(error)
    /\ toasts' = Append(toasts, FailureToast(CatchMessage(error)))
    /\ pending' = Append(Remove(pending, i), Len(requests) + 1)
    /\ requests' = Append(requests, requests[pending[i]])
    /\ outcomes' = Append(outcomes, [request |-> pending[i], kind |-> kind])
    /\ UNCHANGED <<formData, isSubmitting, errors, lastSubmit, nSubmits,
                   nPassed>>

\* a catch block that also resets the form
HandleFailure_Resets(i, kind, error) ==
    /\ submitError' = CatchMessage(error)
    /\ toasts' = Append(toasts, FailureToast(CatchMessage(error)))
    /\ formData' = EmptyForm
    /\ isSubmitting' = FALSE
    /\ pending' = Remove(pending, i)
    /\ outcomes' = Append(outcomes, [request |-> pending[i], kind |-> kind])
    /\ UNCHANGED <<errors, requests, lastSubmit, nSubmits, nPassed>>

\* handleSubmit resumed in its catch block with the error thrown, which a
\* response that is not ok or a rejected fetch (kind) led to: finally
HandleFailure(i, kind, error) ==
    /\ submitError' = CatchMessage(error)
    /\ toasts' = Append(toasts, FailureToast(CatchMessage(error)))
    /\ isSubmitting' = FALSE
    /\ pending' = Remove(pending, i)
    /\ outcomes' = Append(outcomes, [request |-> pending[i], kind |-> kind])
    /\ UNCHANGED <<formData, errors, requests, lastSubmit, nSubmits, nPassed>>

FetchResolvesOk ==
    \E i \in 1..Len(pending) :
        \E status \in Statuses :
            /\ ResponseOk(status)
            /\ HandleSuccess(i)

FetchResolvesNotOk ==
    \E i \in 1..Len(pending) :
        \E status \in Statuses :
            /\ ~ResponseOk(status)
            /\ HandleFailure(i, "notOk", RequestFailed(status))

FetchRejects ==
    \E i \in 1..Len(pending) :
        \E reason \in RejectReasons :
            HandleFailure(i, "rejected", reason)

Next ==
    \/ Change
    \/ HandleSubmitInvalid
    \/ HandleSubmitSend
    \/ FetchResolvesOk
    \/ FetchResolvesNotOk
    \/ FetchRejects

Spec == Init /\ [][Next]_vars

\* the promise fetch returned settles: it resolves or it rejects
FetchSettles == FetchResolvesOk \/ FetchResolvesNotOk \/ FetchRejects

\* the component with every fetch settling in the end
SpecLive == Init /\ [][Next]_vars /\ WF_vars(FetchSettles)

----------------------------------------------------------------------------
(* validateForm and the payload as functions of the form data: the form    *)
(* starts with any strings in its fields, and is submitted.                *)

Pad(s) == <<" ">> \o s \o <<"\t">>

EmailOfLen(n) == Rep(n - 5, "a") \o <<"@", "a", ".", "a", "a">>

\* strings well inside the limits of the schema
ShortValues ==
    [name      |-> { <<>>, <<" ">>, <<" ", "a", " ">> },
     email     |-> { <<>>, <<" ", "a", "@", "a", ".", "a", "a", " ">>,
                     <<"a", "@", "a">>, <<"a", ".", "@", "a", ".", "a", "a">> },
     eventDate |-> { <<>>, <<" ">>, <<"a">> },
     eventType |-> { <<>>, <<"a", " ">> },
     location  |-> { <<>>, <<" ", "\t">>, <<" ", "a", " ">> },
     message   |-> { <<>>, <<" ">>, <<" ", "a", " ">> },
     _gotcha   |-> { <<>>, <<" ", "b">> }]

\* strings at the limits: of the greatest length allowed, of that length
\* with white space around, and one character too long
LongValues ==
    [name     |-> { Rep(MaxNameLen, "a"), Pad(Rep(MaxNameLen, "a")),
                    Rep(MaxNameLen + 1, "a") },
     email    |-> { Pad(EmailOfLen(MaxEmailLen)), EmailOfLen(MaxEmailLen + 1),
                    Rep(MaxEmailLen + 1, "a") },
     location |-> { Pad(Rep(MaxLocationLen, "a")),
                    Rep(MaxLocationLen + 1, "a") },
     message  |-> { Pad(Rep(MaxMessageLen, "a")),
                    Rep(MaxMessageLen + 1, "a") }]

ShortForms ==
    [name : ShortValues.name, email : ShortValues.email,
     eventDate : ShortValues.eventDate, eventType : ShortValues.eventType,
     location : ShortValues.location, message : ShortValues.message,
     _gotcha : ShortValues._gotcha]

\* forms that pass or fail on the name alone
BaseForms ==
    { fd \in ShortForms :
        /\ fd.name # <<" ">>
        /\ fd.email = <<" ", "a", "@", "a", ".", "a", "a", " ">>
        /\ fd.message = <<" ", "a", " ">>
        /\ fd.location = <<>>
        /\ fd.eventDate = <<>>
        /\ fd._gotcha = <<>> }

\* a base form with one field at a limit
OneLongForms ==
    UNION { { [b EXCEPT ![f] = v] : v \in LongValues[f] } :
              b \in BaseForms, f \in DOMAIN LongValues }

\* forms with every checked field at a limit
AllLongForms ==
    [name : LongValues.name \ {Rep(MaxNameLen, "a")},
     email : LongValues.email \ {Rep(MaxEmailLen + 1, "a")},
     eventDate : {<<"a">>}, eventType : {<<>>},
     location : LongValues.location, message : LongValues.message,
     _gotcha : {<<>>}]

AnyFormData == ShortForms \cup OneLongForms \cup AllLongForms

InitAny ==
    /\ formData \in AnyFormData
    /\ isSubmitting = FALSE
    /\ errors = EmptyErrors
    /\ submitError = Null
    /\ pending = <<>>
    /\ requests = <<>>
    /\ toasts = <<>>
    /\ outcomes = <<>>
    /\ lastSubmit = "none"
    /\ nSubmits = 0
    /\ nPassed = 0

NextFn ==
    \/ HandleSubmitInvalid
    \/ HandleSubmitSend
    \/ FetchResolvesOk
    \/ FetchResolvesNotOk
    \/ FetchRejects

SpecFn == InitAny /\ [][NextFn]_vars

----------------------------------------------------------------------------
(* The Contact component held in components/layout/Footer.tsx: six fields,  *)
(* all rendered, a schema with messages of its own, required inputs, and a  *)
(* handleSubmit that reads the body of a response that is not ok.          *)

FooterFieldNames == <<"name", "email", "eventDate", "eventType", "location",
                      "message">>

FooterFields == {FooterFieldNames[i] : i \in 1..Len(FooterFieldNames)}

FooterEmptyForm ==
    [name |-> <<>>, email |-> <<>>, eventDate |-> <<>>, eventType |-> <<>>,
     location |-> <<>>, message |-> <<>>]

footerContactSchema ==
    [name      |-> << [kind |-> "trim"],
                      [kind |-> "min", value |-> MinRequiredLen,
                       message |-> <<"Name is required">>],
                      [kind |-> "max", value |-> MaxNameLen,
                       message |-> <<"Name must be less than 100 characters">>] >>,
     email     |-> << [kind |-> "trim"],
                      [kind |-> "email",
                       message |-> <<"Invalid email address">>],
                      [kind |-> "max", value |-> MaxEmailLen,
                       message |-> <<"Email must be less than 255 characters">>] >>,
     eventDate |-> << >>,
     eventType |-> << >>,
     location  |-> << [kind |-> "trim"],
                      [kind |-> "max", value |-> MaxLocationLen,
                       message |-> <<"Location must be less than 200 characters">>] >>,
     message   |-> << [kind |-> "trim"],
                      [kind |-> "min", value |-> MinRequiredLen,
                       message |-> <<"Message is required">>],
                      [kind |-> "max", value |-> MaxMessageLen,
                       message |-> <<"Message must be less than 2000 characters">>] >>]

\* ZodString._parse with the messages the schema gives its checks
RECURSIVE FooterParseString(_, _, _)
FooterParseString(checks, data, path) ==
    IF checks = <<>> THEN <<>>
    ELSE LET c     == Head(checks)
             rest  == Tail(checks)
             fails == CASE c.kind = "min"   -> Len(data) < c.value
                        [] c.kind = "max"   -> Len(data) > c.value
                        [] c.kind = "email" -> ~IsEmail(data)
         IN IF c.kind = "trim"
            THEN FooterParseString(rest, Trim(data), path)
            ELSE (IF fails THEN <<[path |-> path, message |-> c.message]>>
                  ELSE <<>>)
                     \o FooterParseString(rest, data, path)

RECURSIVE FooterParseFrom(_, _)
FooterParseFrom(i, fd) ==
    IF i > Len(FooterFieldNames) THEN <<>>
    ELSE FooterParseString(footerContactSchema[FooterFieldNames[i]],
                           fd[FooterFieldNames[i]], FooterFieldNames[i])
             \o FooterParseFrom(i + 1, fd)

FooterZodIssues(fd) == FooterParseFrom(1, fd)

FooterValidateForm(fd) == FooterZodIssues(fd) = <<>>

FooterValidateFormErrors(fd) ==
    IF FooterValidateForm(fd) THEN EmptyErrors
    ELSE NewErrors(FooterZodIssues(fd))

FooterPayloadObject(fd) ==
    [name      |-> Trim(fd.name),
     email     |-> Trim(fd.email),
     eventDate |-> IF fd.eventDate = <<>> THEN Undefined ELSE fd.eventDate,
     eventType |-> IF fd.eventType = <<>> THEN Undefined ELSE fd.eventType,
     location  |-> IF Trim(fd.location) = <<>> THEN Undefined
                   ELSE Trim(fd.location),
     message   |-> Trim(fd.message)]

FooterFetchRequest(fd) ==
    [url     |-> WORKER_ENDPOINT,
     method  |-> "POST",
     headers |-> [ContentType |-> "application/json"],
     body    |-> JSONStringify(FooterPayloadObject(fd)),
     src     |-> fd]

\* the browser's check of <input type="email">, on the model's alphabet:
\* a local part, "@", and labels of letters with single dots between them
IsBrowserEmail(s) ==
    LET n   == Len(s)
        ats == {i \in 1..n : s[i] = "@"}
    IN /\ Cardinality(ats) = 1
       /\ \A i \in 1..n : s[i] \in Letters \cup {".", "@"}
       /\ LET k == CHOOSE i \in ats : TRUE
          IN /\ k > 1
             /\ k < n
             /\ s[k+1] # "."
             /\ s[n] # "."
             /\ \A i \in (k+1)..(n-1) : ~(s[i] = "." /\ s[i+1] = ".")

\* the form has no noValidate: the browser fires no submit event while a
\* required input is empty or the email input holds no address
NativeValid(fd) ==
    /\ fd.name # <<>>
    /\ fd.message # <<>>
    /\ IsBrowserEmail(fd.email)

\* the bodies a response that is not ok may carry: text that is no JSON, the
\* JSON null, and objects without a message, with an empty one and with one
FooterBodies ==
    { [parses |-> FALSE, isNull |-> FALSE, message |-> Undefined],
      [parses |-> TRUE,  isNull |-> TRUE,  message |-> Undefined],
      [parses |-> TRUE,  isNull |-> FALSE, message |-> Undefined],
      [parses |-> TRUE,  isNull |-> FALSE, message |-> <<>>],
      [parses |-> TRUE,  isNull |-> FALSE, message |-> <<"Too many requests">>] }

\* await response.json().catch(() => ({}))
ResponseJson(body) ==
    IF body.parses THEN body
    ELSE [parses |-> TRUE, isNull |-> FALSE, message |-> Undefined]

\* `Request failed with status ${response.status}`
FooterFallback(status) == <<"Request failed with status ", ToString(status)>>

\* what the body of if (!response.ok) throws: reading .message of null
\* throws a TypeError; otherwise new Error(errorData.message || fallback)
FooterThrown(status, body) ==
    LET errorData == ResponseJson(body)
    IN IF errorData.isNull
       THEN [isError |-> TRUE,
             message |-> <<"Cannot read properties of null (reading 'message')">>]
       ELSE [isError |-> TRUE,
             message |-> IF errorData.message # Undefined /\ errorData.message # <<>>
                         THEN errorData.message
                         ELSE FooterFallback(status)]

\* error instanceof Error ? error.message : "Failed to submit form. ..."
FooterCatchMessage(error) ==
    IF error.isError THEN error.message
    ELSE <<"Failed to submit form. Please try again.">>

\* what the user may enter into each input of the form
FooterChangeValues ==
    [name      |-> { <<>>, <<" ">>, <<"a">> },
     email     |-> { <<>>, <<"a", "@", "a", ".", "a", "a">>, <<"a", "@", "a">> },
     eventDate |-> { <<>>, <<"a">> },
     eventType |-> { <<>>, <<"b">> },
     location  |-> { <<>>, <<" ", "a">> },
     message   |-> { <<>>, <<"a">> }]

FooterInit ==
    /\ formData = FooterEmptyForm
    /\ isSubmitting = FALSE
    /\ errors = EmptyErrors
    /\ submitError = Null
    /\ pending = <<>>
    /\ requests = <<>>
    /\ toasts = <<>>
    /\ outcomes = <<>>
    /\ lastSubmit = "none"
    /\ nSubmits = 0
    /\ nPassed = 0

FooterHandleChange(field, value) ==
    /\ formData' = [formData EXCEPT ![field] = value]
    /\ UNCHANGED <<isSubmitting, errors, submitError, pending, requests,
                   toasts, outcomes, lastSubmit, nSubmits, nPassed>>

FooterChange ==
    \E field \in FooterFields :
        \E value \in FooterChangeValues[field] :
            /\ value # formData[field]
            /\ FooterHandleChange(field, value)

FooterSubmitInvalid ==
    /\ ~isSubmitting
    /\ NativeValid(formData)
    /\ nSubmits < MaxSubmits
    /\ ~FooterValidateForm(formData)
    /\ submitError' = Null
    /\ errors' = FooterValidateFormErrors(formData)
    /\ lastSubmit' = "invalid"
    /\ nSubmits' = nSubmits + 1
    /\ UNCHANGED <<formData, isSubmitting, pending, requests, toasts,
                   outcomes, nPassed>>

FooterSubmitSend ==
    /\ ~isSubmitting
    /\ NativeValid(formData)
    /\ nSubmits < MaxSubmits
    /\ FooterValidateForm(formData)
    /\ submitError' = Null
    /\ errors' = FooterValidateFormErrors(formData)
    /\ isSubmitting' = TRUE
    /\ pending' = Append(pending, Len(requests) + 1)
    /\ requests' = Append(requests, FooterFetchRequest(formData))
    /\ lastSubmit' = "sent"
    /\ nSubmits' = nSubmits + 1
    /\ nPassed' = nPassed + 1
    /\ UNCHANGED <<formData, toasts, outcomes>>

\* the response is ok: toast, setFormData, setErrors({}), finally
FooterHandleSuccess(i) ==
    /\ toasts' = Append(toasts, SuccessToast)
    /\ formData' = FooterEmptyForm
    /\ errors' = EmptyErrors
    /\ isSubmitting' = FALSE
    /\ pending' = Remove(pending, i)
    /\ outcomes' = Append(outcomes, [request |-> pending[i], kind |-> "ok"])
    /\ UNCHANGED <<submitError, requests, lastSubmit, nSubmits, nPassed>>

\* the catch block and finally, with the outcome that led there
FooterHandleFailure(i, outcome, error) ==
    /\ submitError' = FooterCatchMessage(error)
    /\ toasts' = Append(toasts, FailureToast(FooterCatchMessage(error)))
    /\ isSubmitting' = FALSE
    /\ pending' = Remove(pending, i)
    /\ outcomes' = Append(outcomes, outcome)
    /\ UNCHANGED <<formData, errors, requests, lastSubmit, nSubmits, nPassed>>

FooterResolvesOk ==
    \E i \in 1..Len(pending) :
        \E status \in Statuses :
            /\ ResponseOk(status)
            /\ FooterHandleSuccess(i)

FooterResolvesNotOk ==
    \E i \in 1..Len(pending) :
        \E status \in Statuses :
            \E body \in FooterBodies :
                /\ ~ResponseOk(status)
                /\ FooterHandleFailure(
                       i,
                       [request |-> pending[i], kind |-> "notOk",
                        status |-> status, body |-> body],
                       FooterThrown(status, body))

FooterRejects ==
    \E i \in 1..Len(pending) :
        \E reason \in RejectReasons :
            FooterHandleFailure(
                i, [request |-> pending[i], kind |-> "rejected"], reason)

FooterNext ==
    \/ FooterChange
    \/ FooterSubmitInvalid
    \/ FooterSubmitSend
    \/ FooterResolvesOk
    \/ FooterResolvesNotOk
    \/ FooterRejects

SpecFooter == FooterInit /\ [][FooterNext]_vars

----------------------------------------------------------------------------
(* Properties *)

\* the schema in words: the limits on the trimmed name, email, message and
\* location
NameOk(fd) == Len(Trim(fd.name)) >= 1 /\ Len(Trim(fd.name)) <= 100
EmailOk(fd) == IsEmail(Trim(fd.email)) /\ Len(Trim(fd.email)) <= 255
MessageOk(fd) == Len(Trim(fd.message)) >= 1 /\ Len(Trim(fd.message)) <= 2000
LocationOk(fd) == Len(Trim(fd.location)) <= 200
SchemaHolds(fd) == NameOk(fd) /\ EmailOk(fd) /\ MessageOk(fd) /\ LocationOk(fd)

Last(s) == s[Len(s)]

\* a step that settles a fetch with the given kind of outcome
Settles(kind) ==
    /\ Len(outcomes') = Len(outcomes) + 1
    /\ Last(outcomes').kind = kind

\* a step that is a submit event
SubmitEvent == nSubmits' = nSubmits + 1

\* a step that hands a request to fetch
SendsRequest == Len(requests') > Len(requests)

\* C1: a POST request to the relay endpoint is issued only for form data
\* that satisfies the schema at the submit event: a step that sends a
\* request is a submit event whose form data satisfies the schema, the
\* request's payload comes from that form data, and so no request ever
\* exists whose form data has an empty or white-space name or message, an
\* invalid email or an over-length field.
C1_RequestOnlyIfValid ==
    /\ [](\A i \in 1..Len(requests) :
            /\ requests[i].method = "POST"
            /\ requests[i].url = WORKER_ENDPOINT
            /\ SchemaHolds(requests[i].src))
    /\ [][SendsRequest =>
            /\ SubmitEvent
            /\ SchemaHolds(formData)
            /\ Last(requests').src = formData]_vars

\* C1 witness: one submit event was turned down by validation and another
\* sent a request
C1_Witness == Len(requests) = 1 /\ nSubmits = 2 /\ lastSubmit = "sent"

\* C2: when the response is not ok or the fetch rejects, submitError becomes
\* a non-null message, a destructive 'Submission Failed' toast carries the
\* same message, and every field of formData keeps its value.
C2_FailureKeepsForm ==
    [][Settles("notOk") \/ Settles("rejected") =>
         /\ submitError' # Null
         /\ Len(toasts') = Len(toasts) + 1
         /\ Last(toasts') = [title |-> "Submission Failed",
                             description |-> submitError',
                             variant |-> "destructive"]
         /\ formData' = formData]_vars

\* C2 witness: a request failed and the form still holds what was submitted
C2_Witness ==
    /\ outcomes # <<>>
    /\ Last(outcomes).kind \in {"notOk", "rejected"}
    /\ submitError # Null
    /\ formData = requests[Last(outcomes).request].src

\* C3: when the response is ok, the 'Request Received' toast is shown, every
\* form field is reset to the empty string, and submitError is null
\* afterwards.
C3_SuccessResetsForm ==
    [][Settles("ok") =>
         /\ Len(toasts') = Len(toasts) + 1
         /\ Last(toasts').title = "Request Received"
         /\ \A f \in Fields : formData'[f] = <<>>
         /\ submitError' = Null]_vars

\* C3 witness: a request that carried a filled honeypot succeeded, and the
\* form is empty again
C3_Witness ==
    /\ outcomes # <<>>
    /\ Last(outcomes).kind = "ok"
    /\ requests[Last(outcomes).request].src._gotcha # <<>>
    /\ formData = EmptyForm

\* C4 as stated: the honeypot is always empty, so the _gotcha value of every
\* request's payload is the empty string.
C4_GotchaAlwaysEmpty ==
    \A i \in 1..Len(requests) : requests[i].body._gotcha = <<>>

\* C4 amended: the honeypot is sent as the form holds it: every request's
\* payload has a _gotcha key whose value is the _gotcha field of the form
\* data at the submit event, untrimmed (so empty when that field is empty);
\* and the field changes only by a change event on the hidden input or by
\* the reset to the empty string.
C4_GotchaSentAsHeld ==
    /\ [](\A i \in 1..Len(requests) :
            /\ "_gotcha" \in DOMAIN requests[i].body
            /\ requests[i].body._gotcha = requests[i].src._gotcha)
    /\ [][formData'._gotcha # formData._gotcha =>
            \/ formData'._gotcha = <<>>
            \/ /\ \A f \in Fields \ {"_gotcha"} : formData'[f] = formData[f]
               /\ UNCHANGED <<isSubmitting, errors, submitError, pending,
                              requests, toasts, outcomes, nSubmits>>]_vars

\* C4 witness: a request was sent whose payload carries a filled honeypot
C4_Witness ==
    \E i \in 1..Len(requests) : requests[i].body._gotcha = <<" ", "b">>

\* C5: there are no retries: a request is sent only by a submit event, one
\* at most per event, also after a request failed; and the number of
\* requests never exceeds the number of submit events that passed
\* validation.
C5_NoRetries ==
    /\ [](Len(requests) <= nPassed /\ nPassed <= nSubmits)
    /\ [][/\ Len(requests') <= Len(requests) + 1
          /\ (SendsRequest => SubmitEvent)]_vars

\* C5 witness: a request failed, then a new submit event sent the second
\* request
C5_Witness ==
    /\ Len(requests) = 2
    /\ nPassed = 2
    /\ outcomes # <<>>
    /\ outcomes[1].kind \in {"notOk", "rejected"}

\* C6: at most one request to the relay endpoint is in flight at any time,
\* and no submit event takes place while one is.
C6_OneInFlight ==
    /\ [](Len(pending) <= 1)
    /\ [][SubmitEvent => pending = <<>>]_vars

\* C6 witness: a request is in flight while the form holds valid data and
\* the button is disabled
C6_Witness ==
    /\ Len(pending) = 1
    /\ isSubmitting
    /\ SchemaHolds(formData)
    /\ nSubmits < MaxSubmits

\* C7: validateForm returns true exactly when, after trimming, name has
\* length 1..100, email is a well-formed address of length at most 255,
\* message has length 1..2000 and location has length at most 200; eventDate,
\* eventType and _gotcha never cause a failure: no issue names them, and a
\* submit event sends a request or returns early accordingly.
C7_ValidateFormIffSchema ==
    /\ validateForm(formData) <=> SchemaHolds(formData)
    /\ \A i \in 1..Len(ZodIssues(formData)) :
           ZodIssues(formData)[i].path \notin {"eventDate", "eventType", "_gotcha"}
    /\ \A i \in 1..Len(requests) : SchemaHolds(requests[i].src)
    /\ (lastSubmit = "invalid" => ~SchemaHolds(formData))

\* C7 witness: a form passed whose name, with the white space around it, is
\* longer than 100 characters, and whose eventDate, eventType and _gotcha
\* hold anything
C7_Witness ==
    /\ lastSubmit = "sent"
    /\ \E i \in 1..Len(requests) :
          /\ Len(requests[i].src.name) > 100
          /\ Len(requests[i].src.message) > 2000
          /\ requests[i].src.eventDate # <<>>

\* C8: every request is one JSON POST to the fixed endpoint, one per submit
\* event; its payload holds name, email and message trimmed, eventDate and
\* eventType as they are unless empty and then omitted, location trimmed
\* unless empty or white space only and then omitted; and building it
\* alters no field of the form.
C8_PayloadFromForm ==
    /\ [](\A i \in 1..Len(requests) :
            LET body == requests[i].body
                src  == requests[i].src
                optional(key, value) ==
                    IF value = <<>> THEN key \notin DOMAIN body
                    ELSE key \in DOMAIN body /\ body[key] = value
            IN /\ requests[i].url = WORKER_ENDPOINT
               /\ requests[i].method = "POST"
               /\ requests[i].headers.ContentType = "application/json"
               /\ DOMAIN body \subseteq Fields
               /\ {"name", "email", "message"} \subseteq DOMAIN body
               /\ body.name = Trim(src.name)
               /\ body.email = Trim(src.email)
               /\ body.message = Trim(src.message)
               /\ optional("eventDate", src.eventDate)
               /\ optional("eventType", src.eventType)
               /\ optional("location", Trim(src.location)))
    /\ [][SendsRequest =>
            /\ Len(requests') = Len(requests) + 1
            /\ Last(requests').src = formData
            /\ formData' = formData]_vars

\* C8 witness: a request was sent from a form whose location is white space
\* only and whose eventDate is a blank
C8_Witness ==
    \E i \in 1..Len(requests) :
        /\ requests[i].src.location = <<" ", "\t">>
        /\ requests[i].src.eventDate = <<" ">>
        /\ requests[i].src.eventType = <<>>

\* C9: isSubmitting is true exactly while a request is in flight: false
\* initially and whenever no request is pending, and it becomes true only
\* in a submit event whose form data passed validation and that sends the
\* request.
C9_SubmittingIffPending ==
    /\ [](isSubmitting <=> pending # <<>>)
    /\ [][~isSubmitting /\ isSubmitting' =>
            SubmitEvent /\ SchemaHolds(formData) /\ SendsRequest]_vars

\* C9 witness: nothing is pending and isSubmitting is false after a failed
\* and a successful request
C9_Witness ==
    /\ ~isSubmitting
    /\ Len(outcomes) = 2
    /\ outcomes[1].kind \in {"notOk", "rejected"}
    /\ outcomes[2].kind = "ok"

\* the fields that fail the schema
FailedFields(fd) ==
    {f \in {"name"} : ~NameOk(fd)} \cup {f \in {"email"} : ~EmailOk(fd)}
        \cup {f \in {"message"} : ~MessageOk(fd)}
        \cup {f \in {"location"} : ~LocationOk(fd)}

\* C10: a submit event whose form data fails validation sends no request,
\* leaves isSubmitting false and formData as it is, and replaces the errors
\* map by one holding a message for each field that failed the schema and
\* no entry for the others; a submit event whose form data passes empties
\* the errors map.
C10_ValidationFailure ==
    [][SubmitEvent =>
         IF SchemaHolds(formData)
         THEN errors' = EmptyErrors
         ELSE /\ requests' = requests
              /\ pending' = pending
              /\ ~isSubmitting /\ ~isSubmitting'
              /\ formData' = formData
              /\ DOMAIN errors' = FailedFields(formData)
              /\ \A f \in DOMAIN errors' :
                    \E i \in 1..Len(ZodIssues(formData)) :
                        /\ ZodIssues(formData)[i].path = f
                        /\ errors'[f] = ZodIssues(formData)[i].message]_vars

\* C10 witness: a submit event returned early with messages for two fields
\* and none for the name, which passed
C10_Witness ==
    /\ lastSubmit = "invalid"
    /\ DOMAIN errors = {"email", "message"}
    /\ NameOk(formData)

\* C11: every submit event clears submitError, also one that fails
\* validation and sends nothing; submitError is non-null only if the latest
\* submit event sent a request and that request, the latest, has failed.
C11_SubmitClearsError ==
    /\ [](submitError # Null =>
            /\ lastSubmit = "sent"
            /\ pending = <<>>
            /\ outcomes # <<>>
            /\ Last(outcomes).request = Len(requests)
            /\ Last(outcomes).kind \in {"notOk", "rejected"})
    /\ [][SubmitEvent => submitError' = Null]_vars

\* C11 witness: a request failed, and the next submit event, which failed
\* validation, has cleared the error
C11_Witness ==
    /\ lastSubmit = "invalid"
    /\ submitError = Null
    /\ outcomes # <<>>
    /\ Last(outcomes).kind \in {"notOk", "rejected"}

\* C12: every request that has settled has exactly one toast: the k-th
\* settled request has the k-th toast, the success toast (with the form
\* reset and submitError left null) if it was ok, the failure toast (with
\* submitError set and the form kept) if not; no request settles twice; and
\* a submit event, whether it fails validation or sends, shows no toast.
C12_OneNotification ==
    /\ [](/\ Len(toasts) = Len(outcomes)
          /\ Len(outcomes) = Len(requests) - Len(pending)
          /\ \A j, k \in 1..Len(outcomes) :
                outcomes[j].request = outcomes[k].request => j = k
          /\ \A k \in 1..Len(outcomes) :
                IF outcomes[k].kind = "ok"
                THEN toasts[k].title = "Request Received"
                ELSE toasts[k].title = "Submission Failed")
    /\ [][/\ Settles("ok") =>
                /\ formData' = EmptyForm
                /\ submitError' = Null
          /\ Settles("notOk") \/ Settles("rejected") =>
                /\ submitError' = Last(toasts').description
                /\ formData' = formData
          /\ SubmitEvent => toasts' = toasts
          /\ toasts' # toasts =>
                /\ Len(outcomes') = Len(outcomes) + 1
                /\ toasts' = Append(toasts, Last(toasts'))]_vars

\* C12 witness: of two submit events one sent a request that failed, with
\* its one toast, and the other failed validation, with none
C12_Witness ==
    /\ nSubmits = 2
    /\ lastSubmit = "invalid"
    /\ Len(requests) = 1
    /\ Len(toasts) = 1
    /\ toasts[1].variant = "destructive"

\* C13: if every fetch settles, every submit event that passed validation
\* is followed by a state where isSubmitting is false and the submit button
\* is enabled again: a step that settles the fetch, ok, not ok or rejected,
\* leaves it so.
C13_SubmitTerminates ==
    /\ (lastSubmit = "sent" /\ isSubmitting) ~> (~isSubmitting /\ SubmitEnabled)
    /\ [][Len(outcomes') = Len(outcomes) + 1 =>
            /\ Last(outcomes').kind \in {"ok", "notOk", "rejected"}
            /\ isSubmitting
            /\ ~isSubmitting']_vars

\* C13 witness: a request was rejected, isSubmitting is false and a further
\* submit event can happen
C13_Witness ==
    /\ Len(outcomes) = 1
    /\ outcomes[1].kind = "rejected"
    /\ ~isSubmitting
    /\ SubmitEnabled
    /\ nSubmits < MaxSubmits

\* C14: field edits are not blocked while a request is in flight: a change
\* event can happen then; it leaves the requests sent as they are, each
\* still holding the form data of its submit event; the reset discards it
\* when the request succeeds, and it is kept when the request fails.
C14_EditsInFlight ==
    /\ [](pending # <<>> => ENABLED Change)
    /\ [][/\ \A i \in 1..Len(requests) : requests'[i] = requests[i]
          /\ (pending # <<>> /\ pending' = pending /\ formData' # formData) =>
                /\ requests' = requests
                /\ UNCHANGED <<isSubmitting, submitError, toasts, outcomes>>
          /\ Settles("ok") => formData' = EmptyForm
          /\ Settles("notOk") \/ Settles("rejected") =>
                formData' = formData]_vars

\* C14 witness: a request is in flight and the form no longer holds what
\* was submitted
C14_Witness ==
    /\ pending # <<>>
    /\ formData # requests[pending[1]].src
    /\ requests[pending[1]].body.name = Trim(requests[pending[1]].src.name)

\* C15: a change event (a step that is no submit event and settles no
\* fetch) alters one form field and leaves the other fields, the errors
\* map, submitError and isSubmitting as they are, and sends no request; so
\* the errors map changes in submit events only.
C15_ChangeFrame ==
    /\ [][(~SubmitEvent /\ Len(outcomes') = Len(outcomes)) =>
            /\ \E f \in Fields :
                  /\ formData'[f] # formData[f]
                  /\ \A g \in Fields \ {f} : formData'[g] = formData[g]
            /\ UNCHANGED <<errors, submitError, isSubmitting, requests,
                           pending, toasts>>]_vars
    /\ [][errors' # errors => SubmitEvent]_vars

\* C15 witness: the name was given a valid value after a submit event that
\* turned it down, and its message is still in the errors map
C15_Witness ==
    /\ lastSubmit = "invalid"
    /\ "name" \in DOMAIN errors
    /\ NameOk(formData)

\* C16: in the Contact of Footer.tsx, when the response is not ok the error
\* shown is the message of the response's JSON body if that body parses and
\* has a non-empty message, and 'Request failed with status <status>'
\* otherwise; submitError holds it, the toast carries it, the form is not
\* reset and isSubmitting is false again.
C16_NonOkMessage ==
    [][Settles("notOk") =>
         LET o == Last(outcomes')
             shown == IF /\ o.body.parses
                         /\ o.body.message # Undefined
                         /\ o.body.message # <<>>
                      THEN o.body.message
                      ELSE <<"Request failed with status ", ToString(o.status)>>
         IN /\ submitError' = shown
            /\ Last(toasts').description = shown
            /\ formData' = formData
            /\ ~isSubmitting']_vars
====
